---- MODULE Spec2Model ----
(***************************************************************************)
(* Model of gorilla-boltstore: a gorilla/sessions store that keeps the     *)
(* session values in a bbolt bucket, keyed by the session id, and hands    *)
(* the plain id to the client in a cookie.                                 *)
(*                                                                         *)
(* The bbolt database is a map from bucket names to buckets, a bucket a    *)
(* map from keys to payloads.  A db.Update or db.View transaction is one   *)
(* atomic step (bbolt serialises writers and gives readers a snapshot).    *)
(* securecookie is modelled by its contract: a payload is authenticated    *)
(* with one key and bound to the session name it was encoded under.        *)
(* Errors are modelled by their message, a sequence of parts:              *)
(* fmt.Errorf("label: %s", err) builds a new message, it does not keep     *)
(* the identity of err.                                                    *)
(***************************************************************************)
EXTENDS Integers, Sequences, FiniteSets, TLC

\* ---------------------------------------------------------------- bounds
\* the calls made in a run after the first store is constructed:
\* constructors, New, Get and Save
MaxCalls == 3

\* the request handlers running at the same time
NumThreads == 2

Threads == 1..NumThreads

\* ------------------------------------------------------------- constants
DefaultBucketname == "_boltstore_sessions"

CustomBucketname == "customBucket"

BucketNames == {DefaultBucketname, CustomBucketname}

\* cookie / session names used by the callers
Names == {"testcookie", "foo"}

\* the id returned by the static generator of the tests; the UUIDs are 1, 2, ...
StaticID == 0

\* every call can generate one, and so can the first Get of every handler
Ids == 0..(MaxCalls + NumThreads)

\* values mappings: empty, one entry, and one that gob cannot serialise
EmptyValues == "{}"

Values == {EmptyValues, "{foo:bar}", "{unencodable}"}

Encodable(v) == v # "{unencodable}"

Nil == <<>>

NoSess == [nil |-> TRUE]

NoCookie == [nocookie |-> TRUE]

NoRecord == [norecord |-> TRUE]

\* a bucket that does not exist in the database file
Absent == [id \in Ids |-> [absent |-> TRUE]]

\* ---------------------------------------------------------------- errors
ErrInsufficientKeys == <<"No keys or keypairs were given">>

ErrSessionNotStored == <<"session not found in store">>

ErrNoCookie == <<"http: named cookie not present">>

\* errors of the libraries the store calls
ErrNoCodecs == <<"securecookie: no codecs provided">>

ErrEncode == <<"securecookie: error - caused by: gob: type not registered">>

ErrDecode == <<"securecookie: the value is not valid">>

ErrGenerator == <<"generator failed">>

ErrTx == <<"bbolt: transaction failed">>

PanicNilBucket == <<"panic: nil pointer dereference">>

\* fmt.Errorf("<label>: %s", err): a new error whose text embeds err's text
Errorf(label, err) == <<label>> \o err

\* --------------------------------------------------------------- options
ZeroOptions ==
  [Path |-> "", Domain |-> "", MaxAge |-> 0, Secure |-> FALSE, HttpOnly |-> FALSE]

DefaultOptions ==
  [Path |-> "/", Domain |-> "", MaxAge |-> 86400 * 30, Secure |-> FALSE, HttpOnly |-> FALSE]

CustomOptions ==
  [Path |-> "/app", Domain |-> "example.com", MaxAge |-> 3600, Secure |-> TRUE, HttpOnly |-> TRUE]

\* db: the buckets of the bbolt file; stores: the stores constructed so far;
\* thr: what each request handler holds (its session, the error and the
\* response of its last call, its position inside Save); nextId: the next
\* UUID; ctorErr: the error of the last constructor call; lastSave: the last
\* committed Save, while its record is as that Save wrote it; calls: the
\* number of calls made
VARIABLES db, stores, thr, nextId, ctorErr, lastSave, calls

vars == <<db, stores, thr, nextId, ctorErr, lastSave, calls>>

\* ------------------------------------------------------- securecookie
\* securecookie.CodecsFromPairs: the arguments are taken two by two, a hash
\* key and a block key; an odd last argument is a hash key without block key
CodecsFromPairs(keyPairs) ==
  [i \in 1..((Len(keyPairs) + 1) \div 2) |->
     <<keyPairs[2 * i - 1],
       IF 2 * i <= Len(keyPairs) THEN keyPairs[2 * i] ELSE "">>]

\* a stored payload that has been altered: it authenticates under no key
Garbage == [name |-> "?", values |-> "?", codec |-> <<"?", "?">>]

RECURSIVE FirstDecoding(_, _, _, _)
\* index of the first codec, from i on, that authenticates the payload
FirstDecoding(name, raw, codecs, i) ==
  IF i > Len(codecs) THEN 0
  ELSE IF raw.name = name /\ raw.codec = codecs[i] THEN i
  ELSE FirstDecoding(name, raw, codecs, i + 1)

\* securecookie.EncodeMulti(name, &values, codecs...): the first codec that
\* encodes wins; serialisation does not depend on the codec
EncodeMulti(name, values, codecs) ==
  IF Len(codecs) = 0 THEN [err |-> ErrNoCodecs, d |-> NoRecord]
  ELSE IF ~Encodable(values) THEN [err |-> ErrEncode, d |-> NoRecord]
  ELSE [err |-> Nil, d |-> [name |-> name, values |-> values, codec |-> codecs[1]]]

\* DecodeMulti with a slip: the first codec only is tried
DecodeMulti_FirstKeyOnly(name, raw, codecs) ==
  IF Len(codecs) = 0 THEN [err |-> ErrNoCodecs, values |-> EmptyValues]
  ELSE IF raw.name # name \/ raw.codec # codecs[1]
       THEN [err |-> ErrDecode, values |-> EmptyValues]
  ELSE [err |-> Nil, values |-> raw.values]

\* DecodeMulti with a slip: the key of the payload is not verified
DecodeMulti_AnyKey(name, raw, codecs) ==
  IF Len(codecs) = 0 THEN [err |-> ErrNoCodecs, values |-> EmptyValues]
  ELSE IF raw = Garbage \/ raw.name # name
       THEN [err |-> ErrDecode, values |-> EmptyValues]
  ELSE [err |-> Nil, values |-> raw.values]

\* DecodeMulti with a slip: the name is not part of what is verified
DecodeMulti_NameIgnored(name, raw, codecs) ==
  IF Len(codecs) = 0 THEN [err |-> ErrNoCodecs, values |-> EmptyValues]
  ELSE IF \A i \in 1..Len(codecs) : raw.codec # codecs[i]
       THEN [err |-> ErrDecode, values |-> EmptyValues]
  ELSE [err |-> Nil, values |-> raw.values]

\* securecookie.DecodeMulti(name, raw, &values, codecs...): every codec is
\* tried in order; the payload decodes under the codec that wrote it, for the
\* name it was written for, when it has not been altered
DecodeMulti(name, raw, codecs) ==
  IF Len(codecs) = 0 THEN [err |-> ErrNoCodecs, values |-> EmptyValues]
  ELSE IF FirstDecoding(name, raw, codecs, 1) = 0
       THEN [err |-> ErrDecode, values |-> EmptyValues]
  ELSE [err |-> Nil, values |-> raw.values]

\* ---------------------------------------------------------------- bbolt
EmptyBucket == [id \in Ids |-> NoRecord]

\* CreateBucketIfNotExists with a slip: the bucket is created anew
CreateBucket_Anew(d, name) == [d EXCEPT ![name] = EmptyBucket]

\* tx.CreateBucketIfNotExists(name)
CreateBucketIfNotExists(d, name) ==
  IF d[name] = Absent THEN [d EXCEPT ![name] = EmptyBucket] ELSE d

\* Put with a slip: a key that has a value keeps it
Put_KeepsOld(d, name, key, value) ==
  IF d[name][key] # NoRecord THEN d ELSE [d EXCEPT ![name][key] = value]

\* Put with a slip: a part of the value only is written
Put_Torn(d, name, key, value) == [d EXCEPT ![name][key] = Garbage]

\* Put with a slip: the bucket is written anew with the one key
Put_Clobber(d, name, key, value) ==
  [d EXCEPT ![name] = [EmptyBucket EXCEPT ![key] = value]]

\* tx.Bucket(name).Put(key, value)
Put(d, name, key, value) == [d EXCEPT ![name][key] = value]

\* tx.Bucket(name).Get(key)
BucketGet(d, name, key) == d[name][key]

\* how a db.Update can fail by itself: not at all, before the function runs
\* (the transaction cannot begin), or at commit
TxFailures == {"none", "begin", "commit"}

\* ------------------------------------------------------- construction
\* the option lists given to a constructor: Keys(...), IDGenerator(f),
\* SessionBucket(name), SessionOptions(o); an option that is left out
\* leaves the field at its zero value
NoOptions == [keys |-> <<>>, gen |-> "nil", bucket |-> "", sessionOpts |-> "unset"]

StoreOptions ==
  {NoOptions,
   [NoOptions EXCEPT !.keys = <<"foo">>],
   [NoOptions EXCEPT !.keys = <<"hash", "key">>, !.gen = "custom"],
   [NoOptions EXCEPT !.keys = <<"hash", "key">>, !.bucket = CustomBucketname]}

\* New(db, opts...) of the current API: the store it builds, before the
\* bucket is created
NewStoreValue(o) ==
  [ctor |-> "New",
   codecs |-> CodecsFromPairs(o.keys),
   genfunc |-> IF o.gen = "nil" THEN "default" ELSE "custom",
   bucket |-> IF o.bucket = "" THEN DefaultBucketname ELSE o.bucket,
   sessionOpts |-> IF o.sessionOpts = "unset" THEN DefaultOptions ELSE CustomOptions]

\* the outcome of New(db, opts...): error, store (or none), database
NewOutcome(o, fail, d) ==
  LET s == NewStoreValue(o) IN
  IF Len(s.codecs) = 0
    THEN [err |-> ErrInsufficientKeys, store |-> <<>>, db |-> d]
  ELSE IF fail # "none"
    THEN [err |-> Errorf("initializing bucket", ErrTx), store |-> <<>>, db |-> d]
  ELSE [err |-> Nil, store |-> <<s>>, db |-> CreateBucketIfNotExists(d, s.bucket)]

\* New(db, opts...)
New(o, fail) ==
  /\ calls < MaxCalls
  /\ calls' = calls + 1
  /\ LET r == NewOutcome(o, fail, db) IN
     /\ db' = r.db
     /\ stores' = stores \o r.store
     /\ ctorErr' = r.err
  /\ UNCHANGED <<thr, nextId, lastSave>>

\* NewBoltDBSessionStore(db, opts...) of the first API: no check of the keys,
\* no default options, and the bucket is left to the caller
NewBoltDBSessionStoreValue(o) ==
  [ctor |-> "NewBoltDBSessionStore",
   codecs |-> CodecsFromPairs(o.keys),
   genfunc |-> IF o.gen = "nil" THEN "default" ELSE "custom",
   bucket |-> IF o.bucket = "" THEN DefaultBucketname ELSE o.bucket,
   sessionOpts |-> IF o.sessionOpts = "unset" THEN ZeroOptions ELSE CustomOptions]

\* NewBoltDBSessionStore(db, opts...)
NewBoltDBSessionStore(o) ==
  /\ calls < MaxCalls
  /\ calls' = calls + 1
  /\ stores' = Append(stores, NewBoltDBSessionStoreValue(o))
  /\ ctorErr' = Nil
  /\ UNCHANGED <<db, thr, nextId, lastSave>>

\* ------------------------------------------------------------ sessions
\* what s.genfunc(r) can return: the default generator a fresh UUID, a
\* generator set with IDGenerator its static id or an error
GenOutcomes(s) ==
  IF s.genfunc = "default"
    THEN {[id |-> nextId, err |-> Nil, fresh |-> 1]}
    ELSE {[id |-> StaticID, err |-> Nil, fresh |-> 0],
          [id |-> StaticID, err |-> ErrGenerator, fresh |-> 0]}

\* what a handler holds after a call returned sess, err
Returned(sess, err) == [sess |-> sess, err |-> err, pc |-> "idle", w |-> <<>>]

\* StoreNewResult with a slip: sess.Options = s.sessionOpts, the session
\* points to the options of the store instead of a copy
StoreNewResult_OptionsShared(si, name, g) ==
  IF g.err # Nil
    THEN [sess |-> NoSess, err |-> Errorf("generating ID", g.err)]
    ELSE [sess |-> [store |-> si, name |-> name, id |-> g.id, values |-> EmptyValues,
                    isNew |-> TRUE, opts |-> [ref |-> si]],
          err |-> Nil]

\* StoreNewResult with a slip: the id the generator returned is not stored
StoreNewResult_IdDropped(si, name, g) ==
  IF g.err # Nil
    THEN [sess |-> NoSess, err |-> Errorf("generating ID", g.err)]
    ELSE [sess |-> [store |-> si, name |-> name, id |-> StaticID, values |-> EmptyValues,
                    isNew |-> TRUE, opts |-> stores[si].sessionOpts],
          err |-> Nil]

\* StoreNewResult with a slip: IsNew is left at its zero value
StoreNewResult_NotNew(si, name, g) ==
  IF g.err # Nil
    THEN [sess |-> NoSess, err |-> Errorf("generating ID", g.err)]
    ELSE [sess |-> [store |-> si, name |-> name, id |-> g.id, values |-> EmptyValues,
                    isNew |-> FALSE, opts |-> stores[si].sessionOpts],
          err |-> Nil]

\* (s *store) New(r, name), given what the generator returned
StoreNewResult(si, name, g) ==
  IF g.err # Nil
    THEN [sess |-> NoSess, err |-> Errorf("generating ID", g.err)]
    ELSE [sess |-> [store |-> si, name |-> name, id |-> g.id, values |-> EmptyValues,
                    isNew |-> TRUE,
                    opts |-> IF stores[si].ctor = "New" THEN stores[si].sessionOpts
                             ELSE ZeroOptions],
          err |-> Nil]

\* New, the generator returning g
NewWithId(t, si, name, g) ==
  /\ g.id \in Ids
  /\ LET r == StoreNewResult(si, name, g) IN
     thr' = [thr EXCEPT ![t] = Returned(r.sess, r.err)]
  /\ nextId' = nextId + g.fresh

\* (s *store) New(r, name)
StoreNew(t, si, name) ==
  /\ calls < MaxCalls
  /\ calls' = calls + 1
  /\ thr[t].pc = "idle"
  /\ si \in 1..Len(stores)
  /\ \E g \in GenOutcomes(stores[si]) : NewWithId(t, si, name, g)
  /\ UNCHANGED <<db, stores, ctorErr, lastSave>>

\* the requests a client can send: no cookie, or one cookie of any name
\* carrying an id that was generated or one that never was
Requests == {NoCookie} \cup [name : Names, value : 0..nextId]

\* retrieveSessionID(r, name)
retrieveSessionID(req, name) ==
  IF req = NoCookie \/ req.name # name
    THEN [id |-> StaticID, err |-> ErrNoCookie]
    ELSE [id |-> req.value, err |-> Nil]

\* GetView with a slip: the decoded values are not put into the session
GetView_ValuesDropped(si, name, id, d) ==
  LET s == stores[si] IN
  IF d[s.bucket] = Absent \/ BucketGet(d, s.bucket, id) = NoRecord
    THEN [sess |-> NoSess,
          err |-> Errorf("retrieving session from database", ErrSessionNotStored)]
  ELSE IF DecodeMulti(name, BucketGet(d, s.bucket, id), s.codecs).err # Nil
    THEN [sess |-> NoSess,
          err |-> Errorf("retrieving session from database",
                         Errorf("unmarshalling session", ErrDecode))]
  ELSE [sess |-> [store |-> si, name |-> name, id |-> id, values |-> EmptyValues,
                  isNew |-> FALSE, opts |-> ZeroOptions],
        err |-> Nil]

\* GetView with a slip: a payload that does not decode yields an empty session
GetView_DecodeErrorMasked(si, name, id, d) ==
  LET s == stores[si] IN
  IF d[s.bucket] = Absent \/ BucketGet(d, s.bucket, id) = NoRecord
    THEN [sess |-> NoSess,
          err |-> Errorf("retrieving session from database", ErrSessionNotStored)]
  ELSE [sess |-> [store |-> si, name |-> name, id |-> id,
                  values |-> DecodeMulti(name, BucketGet(d, s.bucket, id), s.codecs).values,
                  isNew |-> FALSE, opts |-> ZeroOptions],
        err |-> Nil]

\* the s.db.View transaction of Get and the return after it
GetView(si, name, id, d) ==
  LET s == stores[si] IN
  IF d[s.bucket] = Absent
    THEN [sess |-> NoSess, err |-> PanicNilBucket]
  ELSE IF BucketGet(d, s.bucket, id) = NoRecord
    THEN [sess |-> NoSess,
          err |-> Errorf("retrieving session from database", ErrSessionNotStored)]
  ELSE LET dec == DecodeMulti(name, BucketGet(d, s.bucket, id), s.codecs) IN
       IF dec.err # Nil
         THEN [sess |-> NoSess,
               err |-> Errorf("retrieving session from database",
                              Errorf("unmarshalling session", dec.err))]
         ELSE [sess |-> [store |-> si, name |-> name, id |-> id, values |-> dec.values,
                         isNew |-> FALSE, opts |-> ZeroOptions],
               err |-> Nil]

\* Get on a request without the cookie: sess, _ = s.New(r, name); return sess, nil
GetNoCookie(si, name, g) == [sess |-> StoreNewResult(si, name, g).sess, err |-> Nil]

\* Get on a request without the cookie, the generator returning g
GetWithoutCookie(t, si, name, g) ==
  /\ g.id \in Ids
  /\ LET r == GetNoCookie(si, name, g) IN
     thr' = [thr EXCEPT ![t] = Returned(r.sess, r.err)]
  /\ nextId' = nextId + g.fresh

\* Get on a request with the cookie
GetWithCookie(t, si, name, id) ==
  /\ LET r == GetView(si, name, id, db) IN
     thr' = [thr EXCEPT ![t] = Returned(r.sess, r.err)]
  /\ nextId' = nextId

\* StoreGet with a slip: a record that does not decode is deleted
StoreGet_Evicting(t, si, name, req) ==
  /\ calls < MaxCalls
  /\ calls' = calls + 1
  /\ thr[t].pc = "idle"
  /\ si \in 1..Len(stores)
  /\ LET c == retrieveSessionID(req, name) IN
     IF c.err = ErrNoCookie
       THEN /\ \E g \in GenOutcomes(stores[si]) : GetWithoutCookie(t, si, name, g)
            /\ db' = db
       ELSE /\ GetWithCookie(t, si, name, c.id)
            /\ db' = IF thr'[t].sess = NoSess /\ db[stores[si].bucket] # Absent
                       THEN [db EXCEPT ![stores[si].bucket][c.id] = NoRecord]
                       ELSE db
  /\ UNCHANGED <<stores, ctorErr, lastSave>>

\* (s *store) Get(r, name)
StoreGet(t, si, name, req) ==
  /\ calls < MaxCalls
  /\ calls' = calls + 1
  /\ thr[t].pc = "idle"
  /\ si \in 1..Len(stores)
  /\ LET c == retrieveSessionID(req, name) IN
     IF c.err = ErrNoCookie
       THEN \E g \in GenOutcomes(stores[si]) : GetWithoutCookie(t, si, name, g)
       ELSE GetWithCookie(t, si, name, c.id)
  /\ UNCHANGED <<db, stores, ctorErr, lastSave>>

\* ---------------------------------------------------------------- Save
\* SaveUpdate with a slip: the record is put into the default bucket
SaveUpdate_DefaultBucket(sess, d, fail) ==
  LET enc == EncodeMulti(sess.name, sess.values, stores[sess.store].codecs) IN
  IF fail = "begin" THEN [isNew |-> sess.isNew, err |-> ErrTx, db |-> d]
  ELSE IF enc.err # Nil
    THEN [isNew |-> FALSE, err |-> Errorf("encoding session", enc.err), db |-> d]
  ELSE IF fail = "commit" THEN [isNew |-> FALSE, err |-> ErrTx, db |-> d]
  ELSE [isNew |-> FALSE, err |-> Nil, db |-> Put(d, DefaultBucketname, sess.id, enc.d)]

\* SaveUpdate with a slip: the record stays when the commit fails
SaveUpdate_NoRollback(sess, d, fail) ==
  LET enc == EncodeMulti(sess.name, sess.values, stores[sess.store].codecs) IN
  IF fail = "begin" THEN [isNew |-> sess.isNew, err |-> ErrTx, db |-> d]
  ELSE IF enc.err # Nil
    THEN [isNew |-> FALSE, err |-> Errorf("encoding session", enc.err), db |-> d]
  ELSE IF fail = "commit"
    THEN [isNew |-> FALSE, err |-> ErrTx,
          db |-> Put(d, stores[sess.store].bucket, sess.id, enc.d)]
  ELSE [isNew |-> FALSE, err |-> Nil,
        db |-> Put(d, stores[sess.store].bucket, sess.id, enc.d)]

\* SaveUpdate with a slip: the payload is encoded and never put
SaveUpdate_NoPut(sess, d, fail) ==
  LET enc == EncodeMulti(sess.name, sess.values, stores[sess.store].codecs) IN
  IF fail = "begin" THEN [isNew |-> sess.isNew, err |-> ErrTx, db |-> d]
  ELSE IF enc.err # Nil
    THEN [isNew |-> FALSE, err |-> Errorf("encoding session", enc.err), db |-> d]
  ELSE IF fail = "commit" THEN [isNew |-> FALSE, err |-> ErrTx, db |-> d]
  ELSE [isNew |-> FALSE, err |-> Nil, db |-> d]

\* the s.db.Update transaction of Save: the session's IsNew after it, the
\* error it returns, the database after it
SaveUpdate(sess, d, fail) ==
  LET s == stores[sess.store]
      enc == EncodeMulti(sess.name, sess.values, s.codecs) IN
  IF fail = "begin"
    THEN [isNew |-> sess.isNew, err |-> ErrTx, db |-> d]
  ELSE IF enc.err # Nil
    THEN [isNew |-> FALSE, err |-> Errorf("encoding session", enc.err), db |-> d]
  ELSE IF d[s.bucket] = Absent
    THEN [isNew |-> FALSE, err |-> PanicNilBucket, db |-> d]
  ELSE IF fail = "commit"
    THEN [isNew |-> FALSE, err |-> ErrTx, db |-> d]
  ELSE [isNew |-> FALSE, err |-> Nil, db |-> Put(d, s.bucket, sess.id, enc.d)]

\* (s *store) newCookie(name, id)
newCookie(name, id) ==
  [Name |-> name, Value |-> id, Path |-> "", Domain |-> "", MaxAge |-> 0,
   Secure |-> FALSE, HttpOnly |-> FALSE]

\* SaveSetCookie with a slip: the cookie is written whatever the transaction
\* returned
SaveSetCookie_Always(sess, err) == <<newCookie(sess.name, sess.id)>>

\* the cookies Save writes to the response after the transaction returned err
SaveSetCookie(sess, err) ==
  IF err # Nil THEN <<>> ELSE <<newCookie(sess.name, sess.id)>>

\* the error Save returns after the transaction returned err
SaveReturn(sess, err) ==
  IF err = Nil THEN Nil
  ELSE IF err = PanicNilBucket THEN err
  ELSE <<"saving session", ToString(sess.id)>> \o err

\* Save, first step: the write transaction; on an error Save returns
StoreSaveUpdate(t, fail) ==
  /\ calls < MaxCalls
  /\ calls' = calls + 1
  /\ thr[t].pc = "idle"
  /\ thr[t].sess # NoSess
  /\ LET sess == thr[t].sess
         r == SaveUpdate(sess, db, fail)
         after == [sess EXCEPT !.isNew = r.isNew] IN
     /\ db' = r.db
     /\ IF r.err # Nil
          THEN /\ thr' = [thr EXCEPT ![t] =
                            [Returned(after, SaveReturn(sess, r.err))
                               EXCEPT !.w = SaveSetCookie(sess, r.err)]]
               /\ UNCHANGED lastSave
          ELSE /\ thr' = [thr EXCEPT ![t] =
                            [Returned(after, Nil) EXCEPT !.pc = "setcookie"]]
               /\ lastSave' = <<[t |-> t, store |-> sess.store, name |-> sess.name,
                                 id |-> sess.id, values |-> sess.values,
                                 nstores |-> Len(stores), returned |-> FALSE]>>
  /\ UNCHANGED <<stores, nextId, ctorErr>>

\* Save, second step: http.SetCookie and return nil
StoreSaveSetCookie(t) ==
  /\ thr[t].pc = "setcookie"
  /\ LET sess == thr[t].sess IN
     thr' = [thr EXCEPT ![t] =
               [Returned(sess, SaveReturn(sess, Nil))
                  EXCEPT !.w = SaveSetCookie(sess, Nil)]]
  /\ lastSave' = IF lastSave # <<>> /\ lastSave[1].t = t
                   THEN <<[lastSave[1] EXCEPT !.returned = TRUE]>>
                   ELSE lastSave
  /\ UNCHANGED <<db, stores, nextId, ctorErr, calls>>

\* ---------------------------------------------------------- the callers
\* the handler fills the session before a later call: sess.Values = v
SetValues(t, v) ==
  /\ calls < MaxCalls
  /\ thr[t].pc = "idle"
  /\ thr[t].sess # NoSess
  /\ thr[t].sess.values # v
  /\ thr' = [thr EXCEPT ![t].sess.values = v]
  /\ UNCHANGED <<db, stores, nextId, ctorErr, lastSave, calls>>

\* what a handler writes into the options of its session
MutatedOptions ==
  [Path |-> "/private", Domain |-> "", MaxAge |-> -1, Secure |-> TRUE, HttpOnly |-> FALSE]

\* sess.Options points to the options of a store, not to a struct of its own
PointsToStore(opts) == "ref" \in DOMAIN opts

\* the handler writes the options of a session it got from New (a session
\* that Get loaded has none): *sess.Options = o changes the struct that
\* sess.Options points to
SetOptions(t, o) ==
  /\ calls < MaxCalls
  /\ thr[t].pc = "idle"
  /\ thr[t].sess # NoSess
  /\ thr[t].sess.opts \notin {ZeroOptions, o}
  /\ IF PointsToStore(thr[t].sess.opts)
       THEN /\ stores' = [stores EXCEPT ![thr[t].sess.opts.ref].sessionOpts = o]
            /\ thr' = thr
       ELSE /\ thr' = [thr EXCEPT ![t].sess.opts = o]
            /\ stores' = stores
  /\ UNCHANGED <<db, nextId, ctorErr, lastSave, calls>>

\* another user of the database file alters a stored payload before a later
\* call
Tamper(b, id) ==
  /\ calls < MaxCalls
  /\ db[b] # Absent
  /\ db[b][id] \notin {NoRecord, Garbage}
  /\ db' = [db EXCEPT ![b][id] = Garbage]
  /\ lastSave' = IF lastSave # <<>> /\ stores[lastSave[1].store].bucket = b
                    /\ lastSave[1].id = id
                   THEN <<>> ELSE lastSave
  /\ UNCHANGED <<stores, thr, nextId, ctorErr, calls>>

\* ------------------------------------------------------- specifications
\* the program has opened an empty database file and called New(db, opts...)
Init ==
  /\ \E o \in StoreOptions :
       LET r == NewOutcome(o, "none", [b \in BucketNames |-> Absent]) IN
       /\ db = r.db
       /\ stores = r.store
       /\ ctorErr = r.err
  /\ thr = [t \in Threads |-> Returned(NoSess, Nil)]
  /\ nextId = 1
  /\ lastSave = <<>>
  /\ calls = 0

\* the life cycle test: the handlers of one store get their sessions from
\* Get, set values and save
NextLC ==
  \/ \E t \in Threads, si \in 1..Len(stores), name \in Names, req \in Requests :
       StoreGet(t, si, name, req)
  \/ \E t \in Threads, fail \in TxFailures : StoreSaveUpdate(t, fail)
  \/ \E t \in Threads : StoreSaveSetCookie(t)
  \/ \E t \in Threads, v \in Values : SetValues(t, v)

SpecLC == Init /\ [][NextLC]_vars

\* more stores are opened on the database, the handlers call New as well,
\* and records of the bucket are overwritten behind the store's back
Next ==
  \/ NextLC
  \/ \E o \in StoreOptions, fail \in {"none", "commit"} : New(o, fail)
  \/ \E t \in Threads, si \in 1..Len(stores), name \in Names : StoreNew(t, si, name)
  \/ \E b \in BucketNames, id \in Ids : Tamper(b, id)

Spec == Init /\ [][Next]_vars

\* the same program with the constructor of the first API as well
NextLegacy ==
  \/ Next
  \/ \E o \in StoreOptions : NewBoltDBSessionStore(o)

SpecLegacy == Init /\ [][NextLegacy]_vars

\* the requests of clients that send no cookie or the id of a saved session
SavedRequests ==
  {NoCookie} \cup
  [name : Names,
   value : {id \in Ids : \E b \in BucketNames : db[b] # Absent /\ db[b][id] # NoRecord}]

\* the handlers get their sessions from New only, and save them
NextNew ==
  \/ \E t \in Threads, si \in 1..Len(stores), name \in Names : StoreNew(t, si, name)
  \/ \E t \in Threads, fail \in TxFailures : StoreSaveUpdate(t, fail)
  \/ \E t \in Threads : StoreSaveSetCookie(t)
  \/ \E t \in Threads, v \in Values : SetValues(t, v)

SpecNew == Init /\ [][NextNew]_vars

\* the program has opened an empty database file and constructed two stores
\* on it with different option lists (a state Spec reaches with its first call)
InitPair ==
  /\ \E o1, o2 \in StoreOptions :
       LET r1 == NewOutcome(o1, "none", [b \in BucketNames |-> Absent])
           r2 == NewOutcome(o2, "none", r1.db) IN
       /\ o1 # o2
       /\ r1.err = Nil
       /\ r2.err = Nil
       /\ db = r2.db
       /\ stores = r1.store \o r2.store
       /\ ctorErr = r2.err
  /\ thr = [t \in Threads |-> Returned(NoSess, Nil)]
  /\ nextId = 1
  /\ lastSave = <<>>
  /\ calls = 0

\* the life cycle with two stores on the database, the transactions of Save
\* not failing by themselves
NextPair ==
  \/ \E t \in Threads, si \in 1..Len(stores), name \in Names, req \in SavedRequests :
       StoreGet(t, si, name, req)
  \/ \E t \in Threads : StoreSaveUpdate(t, "none")
  \/ \E t \in Threads : StoreSaveSetCookie(t)
  \/ \E t \in Threads, v \in Values : SetValues(t, v)

SpecPair == InitPair /\ [][NextPair]_vars

\* the id the generator of store s gives to the first session of handler t
FirstId(s, t) == IF s.genfunc = "default" THEN t ELSE StaticID

\* every handler has got a new session from its first Get on a request
\* without cookie and has filled it, as the life cycle test does (a state
\* Spec reaches with one Get per handler)
InitConc ==
  /\ \E o \in StoreOptions :
       LET r == NewOutcome(o, "none", [b \in BucketNames |-> Absent]) IN
       /\ r.err = Nil
       /\ db = r.db
       /\ stores = r.store
       /\ ctorErr = r.err
  /\ nextId = IF stores[1].genfunc = "default" THEN NumThreads + 1 ELSE 1
  /\ \E names \in [Threads -> Names], vals \in [Threads -> {v \in Values : Encodable(v)}] :
       thr = [t \in Threads |->
                LET g == [id |-> FirstId(stores[1], t), err |-> Nil, fresh |-> 0]
                    r == GetNoCookie(1, names[t], g) IN
                Returned([r.sess EXCEPT !.values = vals[t]], r.err)]
  /\ lastSave = <<>>
  /\ calls = 0

\* the handlers save their sessions and get sessions, all at the same time
NextConc ==
  \/ \E t \in Threads, fail \in TxFailures : StoreSaveUpdate(t, fail)
  \/ \E t \in Threads : StoreSaveSetCookie(t)
  \/ \E t \in Threads, si \in 1..Len(stores), name \in Names, req \in SavedRequests :
       StoreGet(t, si, name, req)

SpecConc == InitConc /\ [][NextConc]_vars

\* the program has opened an empty database file and called New(db, opts...)
\* with keys and with or without SessionOptions
InitOpts ==
  /\ \E o \in {[NoOptions EXCEPT !.keys = <<"foo">>],
                [NoOptions EXCEPT !.keys = <<"foo">>, !.sessionOpts = "set"]} :
       LET r == NewOutcome(o, "none", [b \in BucketNames |-> Absent]) IN
       /\ db = r.db
       /\ stores = r.store
       /\ ctorErr = r.err
  /\ thr = [t \in Threads |-> Returned(NoSess, Nil)]
  /\ nextId = 1
  /\ lastSave = <<>>
  /\ calls = 0

\* the handlers get sessions from New, write their options, save them and
\* get saved sessions
NextOpts ==
  \/ \E t \in Threads, si \in 1..Len(stores), name \in Names : StoreNew(t, si, name)
  \/ \E t \in Threads : SetOptions(t, MutatedOptions)
  \/ \E t \in Threads, fail \in TxFailures : StoreSaveUpdate(t, fail)
  \/ \E t \in Threads : StoreSaveSetCookie(t)
  \/ \E t \in Threads, si \in 1..Len(stores), name \in Names, id \in Ids :
       /\ db[stores[si].bucket][id] # NoRecord
       /\ StoreGet(t, si, name, [name |-> name, value |-> id])

SpecOpts == InitOpts /\ [][NextOpts]_vars

\* two option lists with different buckets: with the same generator set by
\* IDGenerator, and with the default generator
IsoSetups ==
  {<<[NoOptions EXCEPT !.keys = <<"hash", "key">>, !.gen = "custom"],
     [NoOptions EXCEPT !.keys = <<"hash", "key">>, !.gen = "custom",
                       !.bucket = CustomBucketname]>>,
   <<[NoOptions EXCEPT !.keys = <<"foo">>],
     [NoOptions EXCEPT !.keys = <<"hash", "key">>, !.bucket = CustomBucketname]>>}

\* the handlers can hold sessions of any of the stores constructed
InitStore == [Threads -> {1, 2}]

\* the program has constructed two stores with different buckets on an
\* empty database file, and every handler has got a new session "testcookie"
\* from the first Get of one of them; the sessions of the first store have
\* been filled
InitIso ==
  /\ \E setup \in IsoSetups :
       LET r1 == NewOutcome(setup[1], "none", [b \in BucketNames |-> Absent])
           r2 == NewOutcome(setup[2], "none", r1.db) IN
       /\ db = r2.db
       /\ stores = r1.store \o r2.store
       /\ ctorErr = r2.err
  /\ nextId = NumThreads + 1
  /\ \E owner \in InitStore :
       thr = [t \in Threads |->
                LET g == [id |-> FirstId(stores[owner[t]], t), err |-> Nil, fresh |-> 0]
                    r == GetNoCookie(owner[t], "testcookie", g) IN
                Returned([r.sess EXCEPT !.values =
                            IF owner[t] = 1 THEN "{foo:bar}" ELSE EmptyValues],
                         r.err)]
  /\ lastSave = <<>>
  /\ calls = 0

\* the handlers save their sessions and get saved sessions through either
\* store
NextIso ==
  \/ \E t \in Threads : StoreSaveUpdate(t, "none")
  \/ \E t \in Threads : StoreSaveSetCookie(t)
  \/ \E t \in Threads, si \in 1..Len(stores), name \in Names, req \in SavedRequests :
       StoreGet(t, si, name, req)

SpecIso == InitIso /\ [][NextIso]_vars

\* the program has constructed, on one bucket, a store with the key pair K1
\* and a store with a new pair K2 before K1
InitRot ==
  /\ LET r1 == NewOutcome([NoOptions EXCEPT !.keys = <<"hash", "key">>], "none",
                          [b \in BucketNames |-> Absent])
         r2 == NewOutcome([NoOptions EXCEPT !.keys = <<"newhash", "newkey", "hash", "key">>],
                          "none", r1.db) IN
     /\ db = r2.db
     /\ stores = r1.store \o r2.store
     /\ ctorErr = r2.err
  /\ thr = [t \in Threads |-> Returned(NoSess, Nil)]
  /\ nextId = 1
  /\ lastSave = <<>>
  /\ calls = 0

\* the life cycle on the two stores
SpecRot == InitRot /\ [][NextPair]_vars

TypeOK ==
  /\ nextId \in 1..(MaxCalls + NumThreads + 1)
  /\ Len(stores) <= MaxCalls + 1
  /\ calls \in 0..MaxCalls
  /\ \A t \in Threads : thr[t].pc \in {"idle", "setcookie"}

\* ---------------------------------------------------------------- claims
\* the record of session id in the bucket of store si
Record(si, id) == db[stores[si].bucket][id]

\* the keys of store si
CodecSet(si) == {stores[si].codecs[i] : i \in 1..Len(stores[si].codecs)}

\* a step in which a call was made that left the database as it was
CallLeavingDb == calls' = calls + 1 /\ db' = db

\* no handler but t has changed
OthersUnchanged(t) == \A u \in Threads \ {t} : thr'[u] = thr[u]

\* the request that carries the cookie a Save of (name, id) emitted
CookieRequest(name, id) == [name |-> name, value |-> id]

\* C1: round trip. A Get with name N through the store that made the last
\* Save, on a request carrying the cookie that Save emitted for a session
\* named N, returns no error and a session with the saved values, the saved
\* id and isNew false.
C1_RoundTrip ==
  [][\A t \in Threads :
       (/\ CallLeavingDb
        /\ OthersUnchanged(t)
        /\ lastSave # <<>>
        /\ lastSave[1].returned
        /\ StoreGet(t, lastSave[1].store, lastSave[1].name,
                    CookieRequest(lastSave[1].name, lastSave[1].id)))
       => /\ thr'[t].err = Nil
          /\ thr'[t].sess # NoSess
          /\ thr'[t].sess.values = lastSave[1].values
          /\ thr'[t].sess.id = lastSave[1].id
          /\ thr'[t].sess.name = lastSave[1].name
          /\ thr'[t].sess.isNew = FALSE]_vars

\* a handler holds a session that Get loaded (its options are the zero
\* options) with the non-empty values and the id of the last Save
C1_Witness ==
  \E t \in Threads :
    /\ lastSave # <<>>
    /\ lastSave[1].returned
    /\ lastSave[1].values # EmptyValues
    /\ thr[t].err = Nil
    /\ thr[t].sess # NoSess
    /\ thr[t].pc = "idle"
    /\ thr[t].w = <<>>
    /\ thr[t].sess.opts = ZeroOptions
    /\ thr[t].sess.id = lastSave[1].id
    /\ thr[t].sess.values = lastSave[1].values
    /\ ~thr[t].sess.isNew

\* the ids that have a record in some bucket
SavedIds == {id \in Ids : \E b \in BucketNames : db[b] # Absent /\ db[b][id] # NoRecord}

\* the request carries no cookie named name
NoCookieNamed(req, name) == req = NoCookie \/ req.name # name

\* the requests that carry no cookie named name
NoCookieRequests(name) == {NoCookie} \cup [name : Names \ {name}, value : 0..nextId]

C3_AsStated ==
  [][CallLeavingDb =>
     \A si \in 1..Len(stores), id \in 0..nextId :
       Record(si, id) = NoRecord =>
         \A t \in Threads : OthersUnchanged(t) =>
           \A name \in Names :
             StoreGet(t, si, name, CookieRequest(name, id))
             => /\ thr'[t].err = ErrSessionNotStored
                /\ thr'[t].sess = NoSess]_vars

\* the payload is one the store cannot authenticate for this name
Undecodable(si, name, raw) ==
  \/ raw = Garbage
  \/ raw.codec \notin CodecSet(si)
  \/ raw.name # name

\* the decode error as Get returns it
GetDecodeError ==
  Errorf("retrieving session from database", Errorf("unmarshalling session", ErrDecode))

\* C4: tamper detection. Get with a cookie whose id has a record that does
\* not authenticate under the store's keys returns the decode error and no
\* session: not a session, not the not-found error.
C4_TamperDetected ==
  [][CallLeavingDb =>
     \A si \in 1..Len(stores), id \in 0..nextId :
       Record(si, id) # NoRecord =>
         \A name \in Names :
           Undecodable(si, name, Record(si, id)) =>
             \A t \in Threads :
               (OthersUnchanged(t) /\ StoreGet(t, si, name, CookieRequest(name, id)))
               => /\ thr'[t].sess = NoSess
                  /\ thr'[t].err = GetDecodeError
                  /\ thr'[t].err # ErrSessionNotStored
                  /\ thr'[t].err #
                       Errorf("retrieving session from database", ErrSessionNotStored)]_vars

\* a handler got the decode error while an altered payload is in a bucket
C4_Witness ==
  \E t \in Threads :
    /\ thr[t].err = GetDecodeError
    /\ thr[t].sess = NoSess
    /\ \E b \in BucketNames, id \in Ids : db[b] # Absent /\ db[b][id] = Garbage

\* C5: a handler whose Save returned an error has no cookie in its response;
\* a response holds a cookie only when Save returned nil.
C5_NoCookieOnError ==
  \A t \in Threads : thr[t].err # Nil => thr[t].w = <<>>

\* the error of the write transaction as Save returns it
IsSaveError(err) == Len(err) >= 2 /\ err[1] = "saving session"

\* a handler's Save of a session returned an error and its response holds no
\* cookie
C5_Witness ==
  \E t \in Threads :
    /\ IsSaveError(thr[t].err)
    /\ thr[t].sess # NoSess
    /\ thr[t].pc = "idle"
    /\ thr[t].w = <<>>

\* the bucket exists and holds a record for id
HasRecord(d, b, id) == d[b] # Absent /\ d[b][id] # NoRecord

\* C6: ordering. Every cookie in a response carries an id that has a record
\* in the bucket of the store that saved the session, and a record, once
\* written, is never removed: the write is committed before the cookie is
\* emitted and stays, whatever the other handlers do.
C6_Ordering ==
  /\ [](\A t \in Threads : \A i \in 1..Len(thr[t].w) :
          /\ thr[t].sess # NoSess
          /\ HasRecord(db, stores[thr[t].sess.store].bucket, thr[t].w[i].Value))
  /\ [][db' # db =>
          \A b \in BucketNames, id \in Ids :
            HasRecord(db, b, id) => HasRecord(db', b, id)]_vars

\* a Save has emitted its cookie, the record of its id is in the bucket, and
\* the other handler holds a session of the same id
C6_Witness ==
  \E t, u \in Threads :
    /\ t # u
    /\ thr[t].w # <<>>
    /\ thr[t].sess # NoSess
    /\ HasRecord(db, stores[thr[t].sess.store].bucket, thr[t].w[1].Value)
    /\ thr[u].sess # NoSess
    /\ thr[u].sess.id = thr[t].sess.id

\* C7 as stated: a successful Save emits exactly one cookie, named as the
\* session, carrying the session id, with the attributes of the session's
\* options.
C7_AsStated ==
  [][\A t \in Threads :
       StoreSaveSetCookie(t)
       => /\ Len(thr'[t].w) = 1
          /\ thr'[t].w[1].Name = thr[t].sess.name
          /\ thr'[t].w[1].Value = thr[t].sess.id
          /\ thr'[t].w[1].Path = thr[t].sess.opts.Path
          /\ thr'[t].w[1].Domain = thr[t].sess.opts.Domain
          /\ thr'[t].w[1].MaxAge = thr[t].sess.opts.MaxAge
          /\ thr'[t].w[1].Secure = thr[t].sess.opts.Secure
          /\ thr'[t].w[1].HttpOnly = thr[t].sess.opts.HttpOnly]_vars

\* C8 as stated: a constructor called with zero key pairs returns
\* ErrInsufficientKeys and no store; called with at least one key, and the
\* bucket transaction not failing, it returns a store and no error.
C8_AsStated ==
  [][\A o \in StoreOptions :
       /\ (NewBoltDBSessionStore(o) \/ \E fail \in TxFailures : New(o, fail))
          /\ Len(CodecsFromPairs(o.keys)) = 0
          => ctorErr' = ErrInsufficientKeys /\ stores' = stores
       /\ (NewBoltDBSessionStore(o) \/ New(o, "none"))
          /\ Len(CodecsFromPairs(o.keys)) > 0
          => ctorErr' = Nil /\ Len(stores') = Len(stores) + 1]_vars

\* C9 as stated: the bucket of every store a constructor returned exists in
\* the database.
C9_AsStated ==
  \A si \in 1..Len(stores) : db[stores[si].bucket] # Absent

\* C10: idempotent bucket creation. New on a database that already holds the
\* store's bucket returns a store and no error (the transaction not failing)
\* and leaves the database as it was; the session of the last Save is still
\* returned, with its values, by the Get transaction of every store on that
\* bucket with the same keys, the new store included.
C10_IdempotentBucket ==
  [][\A o \in StoreOptions :
       (/\ stores' # stores
        /\ Len(CodecsFromPairs(o.keys)) > 0
        /\ db[NewStoreValue(o).bucket] # Absent
        /\ New(o, "none"))
       => /\ ctorErr' = Nil
          /\ stores' = Append(stores, NewStoreValue(o))
          /\ db' = db
          /\ lastSave # <<>> =>
               \A si \in 1..Len(stores') :
                 (/\ stores'[si].bucket = stores[lastSave[1].store].bucket
                  /\ stores'[si].codecs = stores[lastSave[1].store].codecs)
                 => /\ GetView(si, lastSave[1].name, lastSave[1].id, db)'.err = Nil
                    /\ GetView(si, lastSave[1].name, lastSave[1].id, db)'.sess.values
                         = lastSave[1].values]_vars

\* a second store was constructed, without error, on the bucket of the store
\* through which a session had been saved before, and the record is there
C10_Witness ==
  /\ lastSave # <<>>
  /\ ctorErr = Nil
  /\ Len(stores) > lastSave[1].nstores
  /\ stores[Len(stores)].bucket = stores[lastSave[1].store].bucket
  /\ stores[Len(stores)].codecs = stores[lastSave[1].store].codecs
  /\ HasRecord(db, stores[Len(stores)].bucket, lastSave[1].id)
  /\ db[stores[Len(stores)].bucket][lastSave[1].id].values = lastSave[1].values

\* a step in which a call was made
CallMade == calls' = calls + 1

\* C11: New never touches storage and succeeds whenever the generator does.
\* Every New leaves the database as it was and returns either a session or an
\* error; the session is new, has empty values, the name asked for, the
\* options of the store and the id the configured generator returned (the
\* next UUID of the default generator, the id of the override); New returns
\* no session only when the override failed.
C11_NewNoStorage ==
  [][CallMade =>
     \A t \in Threads : OthersUnchanged(t) =>
       \A si \in 1..Len(stores), name \in Names :
         /\ StoreNew(t, si, name)
            => /\ db' = db
               /\ thr'[t].sess = NoSess =>
                    /\ stores[si].genfunc = "custom"
                    /\ thr'[t].err = Errorf("generating ID", ErrGenerator)
               /\ thr'[t].sess # NoSess =>
                    /\ thr'[t].err = Nil
                    /\ thr'[t].sess.isNew
                    /\ thr'[t].sess.values = EmptyValues
                    /\ thr'[t].sess.name = name
                    /\ thr'[t].sess.opts = stores[si].sessionOpts
                    /\ thr'[t].sess.id =
                         IF stores[si].genfunc = "default" THEN nextId ELSE StaticID
         /\ \A g \in GenOutcomes(stores[si]) :
              (/\ g.err = Nil
               /\ StoreNew(t, si, name)
               /\ NewWithId(t, si, name, g))
              => /\ thr'[t].err = Nil
                 /\ thr'[t].sess # NoSess
                 /\ thr'[t].sess.id = g.id]_vars

\* a handler holds a new, empty session that New made with a UUID and the
\* options of its store, while the bucket holds the record of another
\* session and none of this one
C11_Witness ==
  \E t \in Threads :
    /\ thr[t].sess # NoSess
    /\ thr[t].err = Nil
    /\ thr[t].pc = "idle"
    /\ thr[t].sess.isNew
    /\ thr[t].sess.values = EmptyValues
    /\ thr[t].sess.id # StaticID
    /\ thr[t].sess.opts = stores[thr[t].sess.store].sessionOpts
    /\ ~HasRecord(db, stores[thr[t].sess.store].bucket, thr[t].sess.id)
    /\ \E id \in Ids : HasRecord(db, stores[thr[t].sess.store].bucket, id)

\* C12 as stated: a failure of the generator makes New return an error and
\* no session and makes Get on a request without the cookie return an error;
\* neither call returns a nil error together with no session.
C12_AsStated ==
  [][CallMade =>
     \A t \in Threads : OthersUnchanged(t) =>
       \A si \in 1..Len(stores), name \in Names :
         /\ (StoreNew(t, si, name)
             \/ \E req \in NoCookieRequests(name) : StoreGet(t, si, name, req))
            => (thr'[t].sess = NoSess => thr'[t].err # Nil)
         /\ \A g \in GenOutcomes(stores[si]) :
              (/\ g.err # Nil
               /\ \/ StoreNew(t, si, name) /\ NewWithId(t, si, name, g)
                  \/ /\ StoreGet(t, si, name, NoCookie)
                     /\ GetWithoutCookie(t, si, name, g))
              => /\ thr'[t].err # Nil
                 /\ thr'[t].sess = NoSess]_vars

\* C13 as stated: a Save of a new session leaves isNew true when it returns
\* an error and makes it false when it succeeds.
C13_AsStated ==
  [][CallMade =>
     \A t \in Threads, fail \in TxFailures :
       (/\ thr[t].sess # NoSess
        /\ thr[t].sess.isNew
        /\ StoreSaveUpdate(t, fail))
       => thr'[t].sess.isNew = (thr'[t].err # Nil)]_vars

\* stores si and sj keep their sessions in the same bucket
SameBucket(si, sj) == stores[si].bucket = stores[sj].bucket

\* stores si and sj have no key pair in common
DifferentKeys(si, sj) == CodecSet(si) \cap CodecSet(sj) = {}

\* C14: key scoping. After a Save through store A has returned, a Get with
\* the saved name and the cookie that Save emitted, through a store B on the
\* same bucket that has none of A's key pairs, returns the decode error and
\* no session, so none of A's values.
C14_KeyScoping ==
  [][(CallLeavingDb /\ lastSave # <<>>) =>
     \A sj \in 1..Len(stores) :
       (/\ lastSave[1].returned
        /\ SameBucket(lastSave[1].store, sj)
        /\ DifferentKeys(lastSave[1].store, sj))
       => \A t \in Threads :
            (/\ OthersUnchanged(t)
             /\ StoreGet(t, sj, lastSave[1].name,
                         CookieRequest(lastSave[1].name, lastSave[1].id)))
            => /\ thr'[t].sess = NoSess
               /\ thr'[t].err = GetDecodeError]_vars

\* a handler got the decode error and no session while the record of the
\* last Save, which has returned, is in a bucket that a store with other
\* keys uses as well
C14_Witness ==
  \E t \in Threads, sj \in 1..Len(stores) :
    /\ lastSave # <<>>
    /\ lastSave[1].returned
    /\ lastSave[1].values # EmptyValues
    /\ SameBucket(lastSave[1].store, sj)
    /\ DifferentKeys(lastSave[1].store, sj)
    /\ t # lastSave[1].t
    /\ thr[t].err = GetDecodeError
    /\ thr[t].sess = NoSess

\* C15: name binding. A Get with a name M, on a request whose cookie M
\* carries the id of the session last saved, under another name N, through a
\* store on the bucket of that Save, returns the decode error and no
\* session, so never the values saved under N.
C15_NameBinding ==
  [][(CallLeavingDb /\ lastSave # <<>>) =>
     \A si \in 1..Len(stores), name \in Names \ {lastSave[1].name} :
       SameBucket(lastSave[1].store, si)
       => \A t \in Threads :
            (/\ OthersUnchanged(t)
             /\ StoreGet(t, si, name, CookieRequest(name, lastSave[1].id)))
            => /\ thr'[t].sess = NoSess
               /\ thr'[t].err = GetDecodeError]_vars

\* a handler got the decode error and no session from the only store there
\* is, while the record of the last Save is in its bucket as that Save
\* wrote it
C15_Witness ==
  \E t \in Threads :
    /\ Len(stores) = 1
    /\ lastSave # <<>>
    /\ lastSave[1].values # EmptyValues
    /\ Record(lastSave[1].store, lastSave[1].id).name = lastSave[1].name
    /\ thr[t].err = GetDecodeError
    /\ thr[t].sess = NoSess

\* the not-found error as Get returns it
GetNotFoundError == Errorf("retrieving session from database", ErrSessionNotStored)

\* C16: Get is read-only. No step that changes the database is a Get,
\* whatever the Get returns.
C16_GetReadOnly ==
  [][db' # db =>
     \A t \in Threads, si \in 1..Len(stores), name \in Names, req \in Requests :
       ~StoreGet(t, si, name, req)]_vars

\* a handler's Get returned the not-found error while the bucket holds the
\* record of the last Save as that Save wrote it
C16_Witness ==
  \E t \in Threads :
    /\ thr[t].err = GetNotFoundError
    /\ thr[t].sess = NoSess
    /\ lastSave # <<>>
    /\ Record(lastSave[1].store, lastSave[1].id).values = lastSave[1].values

\* C17: the write transaction of Save changes at most the record keyed by the
\* session id in the bucket of the store, and nothing at all when Save
\* returns an error: a Save that changes the database leaves every other
\* record as it was and returns no error.
C17_SaveFrame ==
  [][db' # db =>
     \A t \in Threads : (thr[t].sess # NoSess /\ OthersUnchanged(t)) =>
       \A fail \in TxFailures :
         StoreSaveUpdate(t, fail)
         => /\ \A b \in BucketNames, id \in Ids :
                 (b # stores[thr[t].sess.store].bucket \/ id # thr[t].sess.id)
                 => db'[b][id] = db[b][id]
            /\ thr'[t].err = Nil]_vars

\* a handler's Save of a session with values failed at commit (the function
\* of the transaction ran and cleared isNew) and the bucket holds no record
\* of its id, while it holds the record of another id
C17_Witness ==
  \E t \in Threads :
    /\ thr[t].sess # NoSess
    /\ thr[t].err = <<"saving session", ToString(thr[t].sess.id)>> \o ErrTx
    /\ ~thr[t].sess.isNew
    /\ thr[t].sess.values # EmptyValues
    /\ ~HasRecord(db, stores[thr[t].sess.store].bucket, thr[t].sess.id)
    /\ \E id \in Ids : HasRecord(db, stores[thr[t].sess.store].bucket, id)

\* C18: layout of the bucket. The record of the id last saved decodes, under
\* the name and the keys of that Save, to the values of that Save; a record
\* changes only in the step of a committed Save of its id (or when it is
\* altered from outside the store), and a record is never removed.
C18_BucketLayout ==
  /\ [](lastSave # <<>> =>
          /\ Record(lastSave[1].store, lastSave[1].id) # NoRecord
          /\ DecodeMulti(lastSave[1].name, Record(lastSave[1].store, lastSave[1].id),
                         stores[lastSave[1].store].codecs)
               = [err |-> Nil, values |-> lastSave[1].values])
  /\ [][db' # db =>
          \A b \in BucketNames, id \in Ids :
            (db[b] # Absent /\ db'[b][id] # db[b][id])
            => /\ db'[b][id] # NoRecord
               /\ \/ db'[b][id] = Garbage
                  \/ /\ lastSave' # <<>>
                     /\ stores[lastSave'[1].store].bucket = b
                     /\ lastSave'[1].id = id
                     /\ thr'[lastSave'[1].t].pc = "setcookie"
                     /\ thr[lastSave'[1].t].pc = "idle"]_vars

\* the record of the last Save, which has returned, holds the values that
\* were saved, not those the handler has put into the session since
C18_Witness ==
  /\ lastSave # <<>>
  /\ lastSave[1].returned
  /\ lastSave[1].values # EmptyValues
  /\ Record(lastSave[1].store, lastSave[1].id).values = lastSave[1].values
  /\ thr[lastSave[1].t].sess # NoSess
  /\ thr[lastSave[1].t].sess.id = lastSave[1].id
  /\ thr[lastSave[1].t].sess.values # lastSave[1].values
  /\ thr[lastSave[1].t].w # <<>>

\* the handler that made the last Save is between its transaction and its
\* return
SaveInFlight ==
  /\ lastSave # <<>>
  /\ ~lastSave[1].returned
  /\ thr[lastSave[1].t].pc = "setcookie"

\* C19: a Get at the same time as a Save of the same id. While the Save is
\* between its commit and its return, a Get of another handler with that id
\* and name returns the complete values of the Save; and every Get with a
\* cookie returns the not-found error when the bucket has no record of the id
\* and the values of the record, as a whole, when it has one that the store
\* wrote under that name: never a decode error.
C19_AtomicRead ==
  [][CallLeavingDb =>
     \A t \in Threads : (thr[t].pc = "idle" /\ OthersUnchanged(t)) =>
       /\ SaveInFlight =>
            (StoreGet(t, lastSave[1].store, lastSave[1].name,
                      CookieRequest(lastSave[1].name, lastSave[1].id))
             => /\ thr'[t].err = Nil
                /\ thr'[t].sess # NoSess
                /\ thr'[t].sess.id = lastSave[1].id
                /\ thr'[t].sess.values = lastSave[1].values)
       /\ \A si \in 1..Len(stores), id \in 0..nextId, name \in Names :
            (/\ Record(si, id) = NoRecord \/ ~Undecodable(si, name, Record(si, id))
             /\ StoreGet(t, si, name, CookieRequest(name, id)))
            => IF Record(si, id) = NoRecord
                 THEN thr'[t].sess = NoSess /\ thr'[t].err = GetNotFoundError
                 ELSE /\ thr'[t].err = Nil
                      /\ thr'[t].sess # NoSess
                      /\ thr'[t].sess.values = Record(si, id).values]_vars

\* a handler holds the session it loaded, with the values of the Save that
\* another handler has committed and not yet returned from
C19_Witness ==
  \E t \in Threads :
    /\ SaveInFlight
    /\ t # lastSave[1].t
    /\ lastSave[1].values # EmptyValues
    /\ thr[t].err = Nil
    /\ thr[t].sess # NoSess
    /\ thr[t].sess.opts = ZeroOptions
    /\ ~thr[t].sess.isNew
    /\ thr[t].sess.id = lastSave[1].id
    /\ thr[t].sess.values = lastSave[1].values

\* the last call of every handler is a Save that returned nil
AllReturned == \A t \in Threads : thr[t].pc = "idle" /\ thr[t].w # <<>>

\* the payload Save writes for the session of handler t
Payload(t) ==
  EncodeMulti(thr[t].sess.name, thr[t].sess.values, stores[thr[t].sess.store].codecs).d

\* handlers t and u hold sessions that are kept under the same key
SameKey(t, u) ==
  /\ thr[t].sess.id = thr[u].sess.id
  /\ SameBucket(thr[t].sess.store, thr[u].sess.store)

\* C20: no lost update. Once the Saves of all handlers have returned nil, the
\* record of every handler's id is the complete payload of one of the
\* handlers that saved under that id: its own when no other handler has
\* the id.
C20_NoLostUpdate ==
  AllReturned =>
    \A t \in Threads :
      /\ Record(thr[t].sess.store, thr[t].sess.id) # NoRecord
      /\ \E u \in Threads :
           /\ SameKey(t, u)
           /\ Record(thr[t].sess.store, thr[t].sess.id) = Payload(u)
      /\ (\A u \in Threads \ {t} : ~SameKey(t, u))
         => Record(thr[t].sess.store, thr[t].sess.id) = Payload(t)

\* the Saves of all handlers have returned nil, and two of them saved
\* different values under one id
C20_Witness ==
  /\ AllReturned
  /\ \E t, u \in Threads :
       /\ t # u
       /\ SameKey(t, u)
       /\ Payload(t) # Payload(u)
       /\ Record(thr[t].sess.store, thr[t].sess.id) = Payload(u)

\* C21: the configuration of a store is immutable. No step changes a store
\* that has been constructed, not even a write by a handler into the options
\* of a session it got from New; the options of every store are the defaults
\* (Path "/", MaxAge 30 days) or those given with SessionOptions, and every
\* session New returns has those options.
C21_ConfigImmutable ==
  /\ [](\A si \in 1..Len(stores) :
          /\ stores[si].sessionOpts \in {DefaultOptions, CustomOptions}
          /\ DefaultOptions.Path = "/" /\ DefaultOptions.MaxAge = 30 * 24 * 60 * 60)
  /\ [][/\ \A si \in 1..Len(stores) : stores'[si] = stores[si]
        /\ CallMade =>
             \A t \in Threads : OthersUnchanged(t) =>
               \A si \in 1..Len(stores), name \in Names :
                 (StoreNew(t, si, name) /\ thr'[t].sess # NoSess)
                 => thr'[t].sess.opts = stores[si].sessionOpts]_vars

\* a handler has written the options of its session, and a session that
\* another handler got from New later has the default options of the store
C21_Witness ==
  \E t, u \in Threads :
    /\ thr[t].sess # NoSess
    /\ thr[u].sess # NoSess
    /\ thr[t].sess.store = thr[u].sess.store
    /\ thr[t].sess.opts = MutatedOptions
    /\ thr[t].sess.id < thr[u].sess.id
    /\ thr[u].sess.isNew
    /\ thr[u].sess.opts = DefaultOptions
    /\ stores[thr[u].sess.store].sessionOpts = DefaultOptions

\* C22 as stated: a Save through one store leaves the buckets of the other
\* stores as they were, and a Get through a store on another bucket, with the
\* name and the cookie of the last Save that returned, returns the not-found
\* error and no session.
C22_AsStated ==
  [][/\ db' # db =>
          \A t \in Threads : thr[t].sess # NoSess =>
            (StoreSaveUpdate(t, "none")
             => \A b \in BucketNames \ {stores[thr[t].sess.store].bucket} : db'[b] = db[b])
     /\ (CallLeavingDb /\ lastSave # <<>>) =>
          \A sj \in 1..Len(stores) :
            (lastSave[1].returned /\ ~SameBucket(lastSave[1].store, sj))
            => \A t \in Threads :
                 (/\ OthersUnchanged(t)
                  /\ StoreGet(t, sj, lastSave[1].name,
                              CookieRequest(lastSave[1].name, lastSave[1].id)))
                 => /\ thr'[t].sess = NoSess
                    /\ thr'[t].err = GetNotFoundError]_vars

\* C22 as amended: a Save through one store leaves the buckets of the other
\* stores as they were; a Get through a store on another bucket, with the
\* name and the cookie of the last Save that returned, returns the not-found
\* error and no session when that bucket holds no record under the id, and
\* otherwise answers from the record of that bucket: a session it returns
\* has the values of that record.
C22_BucketIsolation ==
  [][/\ db' # db =>
          \A t \in Threads : thr[t].sess # NoSess =>
            (StoreSaveUpdate(t, "none")
             => \A b \in BucketNames \ {stores[thr[t].sess.store].bucket} : db'[b] = db[b])
     /\ (CallLeavingDb /\ lastSave # <<>>) =>
          \A sj \in 1..Len(stores) :
            (lastSave[1].returned /\ ~SameBucket(lastSave[1].store, sj))
            => \A t \in Threads :
                 (/\ OthersUnchanged(t)
                  /\ StoreGet(t, sj, lastSave[1].name,
                              CookieRequest(lastSave[1].name, lastSave[1].id)))
                 => IF Record(sj, lastSave[1].id) = NoRecord
                      THEN thr'[t].sess = NoSess /\ thr'[t].err = GetNotFoundError
                      ELSE thr'[t].sess # NoSess
                           => thr'[t].sess.values = Record(sj, lastSave[1].id).values]_vars

\* a handler got the not-found error and no session while the last Save,
\* made by another handler, has returned and a store on another bucket has
\* no record under the saved id
C22_Witness ==
  \E t \in Threads, sj \in 1..Len(stores) :
    /\ lastSave # <<>>
    /\ lastSave[1].returned
    /\ t # lastSave[1].t
    /\ ~SameBucket(lastSave[1].store, sj)
    /\ Record(sj, lastSave[1].id) = NoRecord
    /\ Record(lastSave[1].store, lastSave[1].id).values = lastSave[1].values
    /\ thr[t].sess = NoSess
    /\ thr[t].err = GetNotFoundError

\* the key pair a Save through store si encodes with
EncodingKey(si) == stores[si].codecs[1]

\* C23: key rotation. The record a Save commits is encoded with the first
\* key pair of its store. A Get with the name and the id of the last Save,
\* through a store on the same bucket, returns the saved values when the
\* first pair of the saving store is any of the pairs of the getting store,
\* and the decode error when it is none of them.
C23_KeyRotation ==
  [][/\ (db' # db /\ lastSave' # <<>> /\ lastSave' # lastSave)
          => Record(lastSave[1].store, lastSave[1].id)'.codec = EncodingKey(lastSave[1].store)'
     /\ (CallLeavingDb /\ lastSave # <<>>) =>
          \A sj \in 1..Len(stores) : SameBucket(lastSave[1].store, sj) =>
            \A t \in Threads :
              (/\ OthersUnchanged(t)
               /\ StoreGet(t, sj, lastSave[1].name,
                           CookieRequest(lastSave[1].name, lastSave[1].id)))
              => IF EncodingKey(lastSave[1].store) \in CodecSet(sj)
                   THEN /\ thr'[t].err = Nil
                        /\ thr'[t].sess # NoSess
                        /\ thr'[t].sess.values = lastSave[1].values
                   ELSE /\ thr'[t].sess = NoSess
                        /\ thr'[t].err = GetDecodeError]_vars

\* a handler holds the session, with its values, that it loaded through the
\* store with the pairs K2, K1 after a Save through the store with K1 alone
C23_Witness ==
  \E t \in Threads :
    /\ lastSave # <<>>
    /\ lastSave[1].values # EmptyValues
    /\ Len(stores[lastSave[1].store].codecs) = 1
    /\ thr[t].sess # NoSess
    /\ thr[t].err = Nil
    /\ ~thr[t].sess.isNew
    /\ thr[t].sess.opts = ZeroOptions
    /\ thr[t].sess.store # lastSave[1].store
    /\ Len(stores[thr[t].sess.store].codecs) = 2
    /\ stores[thr[t].sess.store].codecs[2] = EncodingKey(lastSave[1].store)
    /\ thr[t].sess.id = lastSave[1].id
    /\ thr[t].sess.values = lastSave[1].values

====
